---- MODULE Spec2Model ----
(***************************************************************************)
(* Model of customer_churn.ipynb: the notebook that splits the churn data, *)
(* uploads it, fits a scikit-learn preprocessor, batch-transforms the      *)
(* train and validation sets, trains XGBoost and registers a three-        *)
(* container inference pipeline model.  One action per statement of the    *)
(* notebook that changes state; the SageMaker platform moves each job      *)
(* through its life cycle while the notebook waits.                        *)
(***************************************************************************)
EXTENDS Integers, Sequences, FiniteSets, TLC

VARIABLES
    pc,                 \* the next statement of the notebook ("halted" after an exception)
    run,                \* number of the current run of the notebook
    clock,              \* UTC wall clock, in seconds (what gmtime() reads)
    churn,              \* the data frame read from churn.txt: row labels in file order
    shuffled,           \* churn.sample(frac=1, random_state=1729): the seed's permutation
    train_data,         \* the three frames np.split returns
    validation_data,
    test_data,
    files,              \* local files train.csv, validation.csv, test.csv
    s3,                 \* objects in the bucket: location -> content
    job,                \* job[r][j]: the handle of job j of run r
    waited,             \* jobs of this run whose blocking wait has returned
    reads,              \* jobs of this run whose output location the notebook has read
    paths,              \* preprocessed_train_path / preprocessed_validation_path
    channels,           \* input channels handed to xgb.fit
    sk_models,          \* scikit_learn_inferencee_model / scikit_learn_post_process_model
    models,             \* SageMaker model registry: name -> registered model
    response,           \* outcome of this run's client.create_model call
    sizes               \* length, boundaries and partition sizes of the size computation

vars == <<pc, run, clock, churn, shuffled, train_data, validation_data, test_data,
          files, s3, job, waited, reads, paths, channels, sk_models, models,
          response, sizes>>

-----------------------------------------------------------------------------
(* Bounds of the model.                                                    *)

MaxRecords == 4
MaxRuns == 2
MaxTicks == 2
MaxLen == 3400

-----------------------------------------------------------------------------
(* IEEE-754 binary64 arithmetic, as far as `int(0.7 * len(churn))` needs   *)
(* it.  Naturals are little-endian bit sequences so that 53-bit            *)
(* significands and their products are exact.                              *)

None == "None"

RECURSIVE Bits(_)
Bits(n) == IF n = 0 THEN << >> ELSE <<n % 2>> \o Bits(n \div 2)

RECURSIVE ToNat(_)
ToNat(b) == IF b = << >> THEN 0 ELSE b[1] + 2 * ToNat(Tail(b))

RECURSIVE AddBits(_, _, _)
AddBits(a, b, carry) ==
    IF a = << >> /\ b = << >>
    THEN IF carry = 0 THEN << >> ELSE <<1>>
    ELSE LET x == IF a = << >> THEN 0 ELSE a[1]
             y == IF b = << >> THEN 0 ELSE b[1]
             s == x + y + carry
         IN  <<s % 2>> \o AddBits(IF a = << >> THEN a ELSE Tail(a),
                                  IF b = << >> THEN b ELSE Tail(b),
                                  s \div 2)

RECURSIVE MulBits(_, _)
MulBits(a, b) ==
    IF a = << >> THEN << >>
    ELSE LET rest == MulBits(Tail(a), b)
             twice == IF rest = << >> THEN rest ELSE <<0>> \o rest
         IN  IF a[1] = 1 THEN AddBits(b, twice, 0) ELSE twice

RECURSIVE HexBits(_)
HexBits(h) ==
    IF h = << >> THEN << >>
    ELSE HexBits(Tail(h)) \o <<h[1] % 2, (h[1] \div 2) % 2, (h[1] \div 4) % 2, h[1] \div 8>>

RECURSIVE Trim(_)
Trim(b) == IF b # << >> /\ b[Len(b)] = 0 THEN Trim(SubSeq(b, 1, Len(b) - 1)) ELSE b

MantissaBits == 53

\* 0.7 is the double 0x1.6666666666666p-1 = 0x16666666666666 * 2^-53
Double07 == [mant |-> Trim(HexBits(<<1, 6, 6, 6, 6, 6, 6, 6, 6, 6, 6, 6, 6, 6>>)),
             scale |-> 53]

\* 0.9 is the double 0x1.ccccccccccccdp-1 = 0x1ccccccccccccd * 2^-53
Double09 == [mant |-> Trim(HexBits(<<1, 12, 12, 12, 12, 12, 12, 12, 12, 12, 12, 12, 12, 13>>)),
             scale |-> 53]

\* round-to-nearest-even of the exact integer p (bits) to 53 significant bits
RoundToDouble(p) ==
    IF Len(p) <= MantissaBits THEN p
    ELSE LET drop == Len(p) - MantissaBits
             q == SubSeq(p, drop + 1, Len(p))
             guard == p[drop]
             sticky == \E i \in 1..(drop - 1) : p[i] = 1
             up == guard = 1 /\ (sticky \/ q[1] = 1)
             r == IF up THEN AddBits(q, <<1>>, 0) ELSE q
         IN  [i \in 1..drop |-> 0] \o r

\* n * d in binary64: the exact product, rounded once; the value is mant * 2^-scale
FloatMul(n, d) == [mant |-> RoundToDouble(MulBits(Bits(n), d.mant)), scale |-> d.scale]

\* int(x): truncation toward zero of a non-negative double
IntOf(x) == IF Len(x.mant) <= x.scale THEN 0
            ELSE ToNat(SubSeq(x.mant, x.scale + 1, Len(x.mant)))

TrainBoundary(n) == IntOf(FloatMul(n, Double07))

\* the second boundary rounded to the nearest integer instead of truncated
ValidationBoundaryRounded(n) == (9 * n + 5) \div 10

\* the validation fraction passed where the cumulative boundary belongs
ValidationBoundaryFraction(n) == (2 * n) \div 10

ValidationBoundary(n) == IntOf(FloatMul(n, Double09))

-----------------------------------------------------------------------------
(* np.split(ary, [a, b]): ary[:a], ary[a:b], ary[b:] with Python slicing.  *)

Min(a, b) == IF a < b THEN a ELSE b

Slice(s, lo, hi) ==
    LET l == Min(lo, Len(s))
        h == Min(hi, Len(s))
    IN  IF h <= l THEN << >> ELSE SubSeq(s, l + 1, h)

\* a split whose last part starts at the first boundary
NpSplitOverlapping(s, a, b) == <<Slice(s, 0, a), Slice(s, a, b), Slice(s, a, Len(s))>>

NpSplit(s, a, b) == <<Slice(s, 0, a), Slice(s, a, b), Slice(s, b, Len(s))>>

Range(s) == {s[i] : i \in 1..Len(s)}

Orderings(n) == {p \in [1..n -> 1..n] : \A i, j \in 1..n : p[i] = p[j] => i = j}

-----------------------------------------------------------------------------
(* The size computation on its own: the boundaries and partition sizes of  *)
(* the split cell for every data-frame length up to MaxLen.                *)

\* before the size computation has run
NoSizes == [n |-> 0, a |-> 0, b |-> 0, train |-> 0, validation |-> 0, test |-> 0,
            done |-> FALSE]

SizesOf(n) ==
    LET a == TrainBoundary(n)
        b == ValidationBoundary(n)
        parts == NpSplit([i \in 1..n |-> i], a, b)
    IN  [n |-> n, a |-> a, b |-> b, train |-> Len(parts[1]),
         validation |-> Len(parts[2]), test |-> Len(parts[3]), done |-> TRUE]

-----------------------------------------------------------------------------
(* Data frames and CSV files.  A frame is its column names and its row     *)
(* labels; the cell of row r in column c is the pair <<r, c>>.             *)

Columns == <<"State", "Account Length", "Area Code", "Phone", "Int'l Plan", "VMail Plan",
             "VMail Message", "Day Mins", "Day Calls", "Day Charge", "Eve Mins",
             "Eve Calls", "Eve Charge", "Night Mins", "Night Calls", "Night Charge",
             "Intl Mins", "Intl Calls", "Intl Charge", "CustServ Calls", "Churn?">>

Label == "Churn?"

Frame(cols, idx) == [columns |-> cols, index |-> idx]

\* pd.read_csv('churn.txt') for a file of n records
ReadCsv(n) == Frame(Columns, [i \in 1..n |-> i])

\* churn.sample(frac=1, random_state=1729): every row once, in the seed's order
Sample(df, perm) == Frame(df.columns, [i \in 1..Len(df.index) |-> df.index[perm[i]]])

\* np.split(df, [a, b]) on a data frame splits the rows and keeps the columns
SplitFrame(df, a, b) ==
    LET parts == NpSplit(df.index, a, b)
    IN  [k \in 1..3 |-> Frame(df.columns, parts[k])]

RECURSIVE Without(_, _)
Without(cols, c) ==
    IF cols = << >> THEN << >>
    ELSE IF cols[1] = c THEN Without(Tail(cols), c)
    ELSE <<cols[1]>> \o Without(Tail(cols), c)

\* a drop along the rows' axis leaves the columns as they are
DropNothing(df, c) == df

\* df.drop(c, axis=1)
Drop(df, c) == Frame(Without(df.columns, c), df.index)

\* df.to_csv(name, header=h, index=False)
ToCsv(df, h) ==
    [header |-> IF h THEN df.columns ELSE << >>,
     rows |-> [i \in 1..Len(df.index) |->
                  [k \in 1..Len(df.columns) |-> <<df.index[i], df.columns[k]>>]]]

\* writing `content` under `key` in a store (a directory, the bucket, the registry)
Put(store, key, content) ==
    [k \in DOMAIN store \cup {key} |-> IF k = key THEN content ELSE store[k]]

NoFrame == Frame(<< >>, << >>)

\* the working directory before any to_csv call
NoFiles == << >>

-----------------------------------------------------------------------------
(* Locations in the bucket.                                                *)

Bucket == "mlx-sagemaker-quicksight-customer-churn"

Prefix == "sagemaker/QS-xgboost-churn"

\* os.path.join(prefix, key) in the bucket
ObjectUri(key) == "s3://" \o Bucket \o "/" \o Prefix \o "/" \o key

s3_input_train == ObjectUri("rawtrain/")

s3_input_validation == ObjectUri("rawvalidation/")

s3_input_test == ObjectUri("rawtest/")

transform_train_output_path == ObjectUri("transformtrain-train-output/")

transform_validation_output_path == ObjectUri("transformtrain-validation-output/")

xgb_output_path == ObjectUri("output")

-----------------------------------------------------------------------------
(* Job handles.                                                            *)

JobKinds == {"fit", "transform_train", "transform_validation", "training"}

Terminal == {"Succeeded", "Failed"}

NonTerminal == {"Submitted", "Running"}

NoJob == [status |-> "NotSubmitted", submits |-> 0, name |-> None, input |-> << >>,
          output |-> None]

\* the name the SDK gives the job of kind j in run r
JobName(j, r) == j \o "-run-" \o ToString(r)

\* what the platform will write when the job of kind j in run r completes
OutputOf(j, r) ==
    CASE j = "fit" -> "s3://sagemaker-default-bucket/" \o JobName(j, r) \o "/output/model.tar.gz"
      [] j = "transform_train" -> transform_train_output_path \o JobName(j, r)
      [] j = "transform_validation" -> transform_validation_output_path \o JobName(j, r)
      [] j = "training" -> xgb_output_path \o "/" \o JobName(j, r) \o "/output/model.tar.gz"

Submitted(j, r, inputs) ==
    [status |-> "Submitted", submits |-> job[j].submits + 1, name |-> JobName(j, r),
     input |-> inputs, output |-> OutputOf(j, r)]

-----------------------------------------------------------------------------
(* strftime("%Y-%m-%d-%H-%M-%S", gmtime()): the civil date and time of the *)
(* clock's seconds since the epoch, zero-padded.                           *)

Pad2(x) == IF x < 10 THEN "0" \o ToString(x) ELSE ToString(x)

Pad4(x) == IF x < 10 THEN "000" \o ToString(x)
           ELSE IF x < 100 THEN "00" \o ToString(x)
           ELSE IF x < 1000 THEN "0" \o ToString(x)
           ELSE ToString(x)

\* the proleptic Gregorian date of day number `days` (days since 1970-01-01)
CivilFromDays(days) ==
    LET z == days + 719468
        era == z \div 146097
        doe == z - era * 146097
        yoe == (doe - (doe \div 1460) + (doe \div 36524) - (doe \div 146096)) \div 365
        doy == doe - (365 * yoe + (yoe \div 4) - (yoe \div 100))
        mp == (5 * doy + 2) \div 153
        d == doy - ((153 * mp + 2) \div 5) + 1
        m == IF mp < 10 THEN mp + 3 ELSE mp - 9
        y == yoe + era * 400 + (IF m <= 2 THEN 1 ELSE 0)
    IN  [year |-> y, month |-> m, day |-> d]

Strftime(t) ==
    LET date == CivilFromDays(t \div 86400)
        secs == t % 86400
    IN  Pad4(date.year) \o "-" \o Pad2(date.month) \o "-" \o Pad2(date.day) \o "-"
        \o Pad2(secs \div 3600) \o "-" \o Pad2((secs % 3600) \div 60) \o "-" \o Pad2(secs % 60)

ModelName(t) == "QS-inference-pipeline-" \o Strftime(t)

\* the clock readings a behaviour may start from:
\* 2020-02-28 23:59:58 and 2020-12-31 23:59:58 UTC
StartTimes == {1582934398, 1609459198}

-----------------------------------------------------------------------------
(* The pipeline model's containers.                                        *)

SklearnImage == "sagemaker-scikit-learn:0.20.0"

XgboostImage == "sagemaker-xgboost:1.2-1"

\* sklearn_preprocessor.create_model(env={'TRANSFORM_MODE': mode})
SklearnModel(mode) ==
    [image_uri |-> SklearnImage, model_data |-> job["fit"].output,
     env |-> [TRANSFORM_MODE |-> mode]]

\* the Environment of a scikit-learn container of the pipeline model
SklearnEnvironment(mode) ==
    [SAGEMAKER_SUBMIT_DIRECTORY |-> "s3://sagemaker-default-bucket/"
                                     \o job["fit"].name \o "/source/sourcedir.tar.gz",
     TRANSFORM_MODE |-> mode,
     SAGEMAKER_CONTAINER_LOG_LEVEL |-> "20",
     SAGEMAKER_REGION |-> "region",
     SAGEMAKER_PROGRAM |-> "preprocessing.py"]

\* the containers with predict and postprocess exchanged
ContainersSwapped ==
    << [Image |-> SklearnImage,
        ModelDataUrl |-> job["fit"].output,
        Environment |-> SklearnEnvironment("feature-transform")],
       [Image |-> sk_models.post.image_uri,
        ModelDataUrl |-> sk_models.post.model_data,
        Environment |-> SklearnEnvironment("inverse-label-transform")],
       [Image |-> XgboostImage,
        ModelDataUrl |-> job["training"].output,
        Environment |-> << >>] >>

\* the Containers argument of client.create_model
Containers ==
    << [Image |-> SklearnImage,
        ModelDataUrl |-> job["fit"].output,
        Environment |-> SklearnEnvironment("feature-transform")],
       [Image |-> XgboostImage,
        ModelDataUrl |-> job["training"].output,
        Environment |-> << >>],
       [Image |-> sk_models.post.image_uri,
        ModelDataUrl |-> sk_models.post.model_data,
        Environment |-> SklearnEnvironment("inverse-label-transform")] >>

-----------------------------------------------------------------------------
(* Initial state: a kernel that has read churn.txt, an empty bucket and an *)
(* empty model registry.                                                   *)

NoPaths == [train |-> None, validation |-> None]

NoSkModel == [image_uri |-> None, model_data |-> None, env |-> << >>]

NoSkModels == [pre |-> NoSkModel, post |-> NoSkModel]

NoResponse == [status |-> "none"]

Init ==
    /\ pc = "split"
    /\ run = 1
    /\ clock \in StartTimes
    /\ \E n \in 0..MaxRecords :
          /\ churn = ReadCsv(n)
          /\ shuffled \in Orderings(n)
    /\ train_data = NoFrame
    /\ validation_data = NoFrame
    /\ test_data = NoFrame
    /\ files = NoFiles
    /\ s3 = << >>
    /\ job = [j \in JobKinds |-> NoJob]
    /\ waited = {}
    /\ reads = {}
    /\ paths = NoPaths
    /\ channels = NoPaths
    /\ sk_models = NoSkModels
    /\ models = << >>
    /\ response = NoResponse
    /\ sizes = NoSizes

data == <<churn, shuffled>>
frames == <<train_data, validation_data, test_data, files>>
platform == <<job, waited, reads>>
wiring == <<paths, channels, sk_models>>
registry == <<models, response>>

-----------------------------------------------------------------------------
(* The notebook's cells.                                                   *)

\* the split with sample() left unseeded: every run draws its own permutation
SplitUnseeded ==
    /\ pc = "split"
    /\ \E perm \in Orderings(Len(churn.index)) :
          \E parts \in {SplitFrame(Sample(churn, perm), TrainBoundary(Len(churn.index)),
                                   ValidationBoundary(Len(churn.index)))} :
              /\ train_data' = parts[1]
              /\ validation_data' = parts[2]
              /\ test_data' = parts[3]
              /\ files' = Put(Put(Put(files, "train.csv", ToCsv(parts[1], FALSE)),
                                   "validation.csv", ToCsv(parts[2], FALSE)),
                               "test.csv", ToCsv(Drop(parts[3], Label), TRUE))
    /\ pc' = "upload"
    /\ UNCHANGED <<run, clock, data, s3, platform, wiring, registry, sizes>>

\* train_data, validation_data, test_data = np.split(churn.sample(...), [...]);
\* the three to_csv calls
Split ==
    /\ pc = "split"
    /\ \E parts \in {SplitFrame(Sample(churn, shuffled), TrainBoundary(Len(churn.index)),
                                ValidationBoundary(Len(churn.index)))} :
          /\ train_data' = parts[1]
          /\ validation_data' = parts[2]
          /\ test_data' = parts[3]
          /\ files' = Put(Put(Put(files, "train.csv", ToCsv(parts[1], FALSE)),
                               "validation.csv", ToCsv(parts[2], FALSE)),
                           "test.csv", ToCsv(Drop(parts[3], Label), TRUE))
    /\ pc' = "upload"
    /\ UNCHANGED <<run, clock, data, s3, platform, wiring, registry, sizes>>

\* the three upload_file calls
Upload ==
    /\ pc = "upload"
    /\ s3' = Put(Put(Put(s3, ObjectUri("rawtrain/train.csv"), files["train.csv"]),
                     ObjectUri("rawvalidation/validation.csv"), files["validation.csv"]),
                 ObjectUri("rawtest/test.csv"), files["test.csv"])
    /\ pc' = "fit"
    /\ UNCHANGED <<run, clock, data, frames, platform, wiring, registry, sizes>>

\* a call that submits the job of kind j on `inputs`
Submit(j, inputs, next) ==
    /\ job' = [job EXCEPT ![j] = Submitted(j, run, inputs)]
    /\ pc' = next
    /\ UNCHANGED <<run, clock, data, frames, s3, waited, reads, wiring, registry, sizes>>

\* a wait that returns on any terminal status, swallowing the failure
WaitIgnoringFailure(j, next) ==
    /\ job[j].status \in Terminal
    /\ waited' = waited \cup {j}
    /\ pc' = next
    /\ UNCHANGED <<run, clock, data, frames, s3, job, reads, wiring, registry, sizes>>

\* a wait that returns at once, whatever the job's status
WaitNonBlocking(j, next) ==
    /\ job[j].status # "NotSubmitted"
    /\ waited' = waited \cup {j}
    /\ pc' = next
    /\ UNCHANGED <<run, clock, data, frames, s3, job, reads, wiring, registry, sizes>>

\* a wait that submits the job again when it has failed
WaitWithRetry(j, next) ==
    /\ job[j].status \in Terminal
    /\ IF job[j].status = "Succeeded"
       THEN /\ waited' = waited \cup {j}
            /\ job' = job
            /\ pc' = next
       ELSE /\ waited' = waited
            /\ job' = [job EXCEPT ![j] = Submitted(j, run, job[j].input)]
            /\ pc' = pc
    /\ UNCHANGED <<run, clock, data, frames, s3, reads, wiring, registry, sizes>>

\* a blocking wait on the job of kind j: returns once the job has succeeded,
\* raises once it has failed
Wait(j, next) ==
    /\ job[j].status \in Terminal
    /\ IF job[j].status = "Succeeded"
       THEN /\ waited' = waited \cup {j}
            /\ pc' = next
       ELSE /\ waited' = waited
            /\ pc' = "halted"
    /\ UNCHANGED <<run, clock, data, frames, s3, job, reads, wiring, registry, sizes>>

\* sklearn_preprocessor.fit({'train': s3_input_train})
FitSubmit ==
    /\ pc = "fit"
    /\ Submit("fit", [train |-> s3_input_train], "fit_wait")

FitWait ==
    /\ pc = "fit_wait"
    /\ Wait("fit", "create_model_pre")

\* scikit_learn_inferencee_model = sklearn_preprocessor.create_model(...)
CreateInferenceModel ==
    /\ pc = "create_model_pre"
    /\ sk_models' = [sk_models EXCEPT !.pre = SklearnModel("feature-transform")]
    /\ reads' = reads \cup {"fit"}
    /\ pc' = "transform_train"
    /\ UNCHANGED <<run, clock, data, frames, s3, job, waited, paths, channels, registry,
                   sizes>>

\* the transform call followed at once by the read of the output path
TransformTrainSubmitThenRead ==
    /\ pc = "transform_train"
    /\ Submit("transform_train", [data |-> s3_input_train], "read_train_path")

\* transformer_train.transform(s3_input_train...['S3Uri'], content_type='text/csv')
TransformTrainSubmit ==
    /\ pc = "transform_train"
    /\ Submit("transform_train", [data |-> s3_input_train], "wait_train")

\* transformer_train.wait()
TransformTrainWait ==
    /\ pc = "wait_train"
    /\ Wait("transform_train", "read_train_path")

\* preprocessed_train_path = transformer_train.output_path + ...job_name
ReadTrainPath ==
    /\ pc = "read_train_path"
    /\ paths' = [paths EXCEPT !.train = transform_train_output_path
                                          \o job["transform_train"].name]
    /\ reads' = reads \cup {"transform_train"}
    /\ pc' = "transform_validation"
    /\ UNCHANGED <<run, clock, data, frames, s3, job, waited, channels, sk_models,
                   registry, sizes>>

\* transformer_validation.transform(s3_input_validation...['S3Uri'], ...)
TransformValidationSubmit ==
    /\ pc = "transform_validation"
    /\ Submit("transform_validation", [data |-> s3_input_validation], "wait_validation")

\* transformer_validation.wait()
TransformValidationWait ==
    /\ pc = "wait_validation"
    /\ Wait("transform_validation", "read_validation_path")

\* preprocessed_validation_path = transformer_validation.output_path + ...job_name
ReadValidationPath ==
    /\ pc = "read_validation_path"
    /\ paths' = [paths EXCEPT !.validation = transform_validation_output_path
                                               \o job["transform_validation"].name]
    /\ reads' = reads \cup {"transform_validation"}
    /\ pc' = "training_inputs"
    /\ UNCHANGED <<run, clock, data, frames, s3, job, waited, channels, sk_models,
                   registry, sizes>>

\* the two processed inputs built from each other's path
TrainingInputsSwapped ==
    /\ pc = "training_inputs"
    /\ channels' = [train |-> paths.validation, validation |-> paths.train]
    /\ pc' = "xgb_fit"
    /\ UNCHANGED <<run, clock, data, frames, s3, platform, paths, sk_models, registry,
                   sizes>>

\* s3_input_train_processed / s3_input_validation_processed
TrainingInputs ==
    /\ pc = "training_inputs"
    /\ channels' = [train |-> paths.train, validation |-> paths.validation]
    /\ pc' = "xgb_fit"
    /\ UNCHANGED <<run, clock, data, frames, s3, platform, paths, sk_models, registry,
                   sizes>>

\* xgb.fit({'train': ..., 'validation': ...})
XgbFitSubmit ==
    /\ pc = "xgb_fit"
    /\ Submit("training", channels, "xgb_wait")

XgbFitWait ==
    /\ pc = "xgb_wait"
    /\ Wait("training", "create_model_post")

\* scikit_learn_post_process_model = sklearn_preprocessor.create_model(...)
CreatePostProcessModel ==
    /\ pc = "create_model_post"
    /\ sk_models' = [sk_models EXCEPT !.post = SklearnModel("inverse-label-transform")]
    /\ pc' = "create_model"
    /\ UNCHANGED <<run, clock, data, frames, s3, platform, paths, channels, registry,
                   sizes>>

\* client.create_model(ModelName=model_name, Containers=[...], ...): the service
\* rejects a name that is already registered and the call raises
CreateModel ==
    /\ pc = "create_model"
    /\ reads' = reads \cup {"fit", "training"}
    /\ LET model_name == ModelName(clock)
       IN  IF model_name \in DOMAIN models
           THEN /\ models' = models
                /\ response' = [status |-> "ValidationException"]
                /\ pc' = "halted"
           ELSE /\ models' = Put(models, model_name,
                                 [Containers |-> Containers, run |-> run])
                /\ response' = [status |-> "created", ModelName |-> model_name]
                /\ pc' = "done"
    /\ UNCHANGED <<run, clock, data, frames, s3, job, waited, wiring, sizes>>

-----------------------------------------------------------------------------
(* The platform and the environment.                                       *)

JobStart(j) ==
    /\ job[j].status = "Submitted"
    /\ job' = [job EXCEPT ![j].status = "Running"]
    /\ UNCHANGED <<pc, run, clock, data, frames, s3, waited, reads, wiring, registry,
                   sizes>>

JobSucceed(j) ==
    /\ job[j].status = "Running"
    /\ job' = [job EXCEPT ![j].status = "Succeeded"]
    /\ UNCHANGED <<pc, run, clock, data, frames, s3, waited, reads, wiring, registry,
                   sizes>>

JobFail(j) ==
    /\ job[j].status = "Running"
    /\ job' = [job EXCEPT ![j].status = "Failed"]
    /\ UNCHANGED <<pc, run, clock, data, frames, s3, waited, reads, wiring, registry,
                   sizes>>

\* a second of wall-clock time passes.  Only the registration cell reads the
\* clock, so what matters is how much time has passed when that cell starts.
Tick ==
    /\ pc = "create_model"
    /\ \E t \in StartTimes : t <= clock /\ clock < t + MaxTicks
    /\ clock' = clock + 1
    /\ UNCHANGED <<pc, run, data, frames, s3, platform, wiring, registry, sizes>>

\* the notebook is run again in a fresh kernel: the bucket, the registry and the
\* clock are what the earlier run left
Rerun ==
    /\ pc \in {"done", "halted"}
    /\ run < MaxRuns
    /\ run' = run + 1
    /\ pc' = "split"
    /\ train_data' = NoFrame
    /\ validation_data' = NoFrame
    /\ test_data' = NoFrame
    /\ files' = NoFiles
    /\ job' = [j \in JobKinds |-> NoJob]
    /\ waited' = {}
    /\ reads' = {}
    /\ paths' = NoPaths
    /\ channels' = NoPaths
    /\ sk_models' = NoSkModels
    /\ response' = NoResponse
    /\ UNCHANGED <<clock, data, s3, models, sizes>>

Next ==
    \/ Split
    \/ Upload
    \/ FitSubmit
    \/ FitWait
    \/ CreateInferenceModel
    \/ TransformTrainSubmit
    \/ TransformTrainWait
    \/ ReadTrainPath
    \/ TransformValidationSubmit
    \/ TransformValidationWait
    \/ ReadValidationPath
    \/ TrainingInputs
    \/ XgbFitSubmit
    \/ XgbFitWait
    \/ CreatePostProcessModel
    \/ CreateModel
    \/ \E j \in JobKinds : JobStart(j)
    \/ \E j \in JobKinds : JobSucceed(j)
    \/ \E j \in JobKinds : JobFail(j)
    \/ Tick
    \/ Rerun

Spec == Init /\ [][Next]_vars

\* a cell of the notebook after the split cell
Cell ==
    \/ Upload
    \/ FitSubmit
    \/ FitWait
    \/ CreateInferenceModel
    \/ TransformTrainSubmit
    \/ TransformTrainWait
    \/ ReadTrainPath
    \/ TransformValidationSubmit
    \/ TransformValidationWait
    \/ ReadValidationPath
    \/ TrainingInputs
    \/ XgbFitSubmit
    \/ XgbFitWait
    \/ CreatePostProcessModel
    \/ CreateModel

\* the notebook with a kernel that keeps executing cells and a platform on which
\* every submitted job starts and then succeeds or fails.  The split cell is
\* enabled exactly when pc = "split" and always leaves it, so its weak fairness
\* is []<>(pc # "split").
FairSpec ==
    /\ Spec
    /\ []<>(pc # "split")
    /\ WF_vars(Cell)
    /\ \A j \in JobKinds : WF_vars(JobStart(j)) /\ WF_vars(JobSucceed(j) \/ JobFail(j))

-----------------------------------------------------------------------------
(* The size computation as a specification of its own: a data frame of any *)
(* length up to MaxLen is split and the partition sizes recorded.          *)

SizeInit ==
    /\ pc = "size"
    /\ run = 1
    /\ clock = 0
    /\ churn = NoFrame
    /\ shuffled = << >>
    /\ train_data = NoFrame
    /\ validation_data = NoFrame
    /\ test_data = NoFrame
    /\ files = NoFiles
    /\ s3 = << >>
    /\ job = [j \in JobKinds |-> NoJob]
    /\ waited = {}
    /\ reads = {}
    /\ paths = NoPaths
    /\ channels = NoPaths
    /\ sk_models = NoSkModels
    /\ models = << >>
    /\ response = NoResponse
    /\ \E n \in 0..MaxLen : sizes = [NoSizes EXCEPT !.n = n]

ComputeSizes ==
    /\ pc = "size"
    /\ sizes' = SizesOf(sizes.n)
    /\ pc' = "sized"
    /\ UNCHANGED <<run, clock, data, frames, s3, platform, wiring, registry>>

SizeNext == ComputeSizes

SizeSpec == SizeInit /\ [][SizeNext]_vars

-----------------------------------------------------------------------------
(* Properties.                                                             *)

JobOrder == <<"fit", "transform_train", "transform_validation", "training">>

Position(j) == CHOOSE i \in 1..Len(JobOrder) : JobOrder[i] = j

SplitDone == pc # "split"

\* C1: after the split cell the train, validation and test frames are pairwise
\* disjoint and together hold every row of churn exactly once.
SplitIsPartition ==
    SplitDone =>
        LET tr == train_data.index
            va == validation_data.index
            te == test_data.index
        IN  /\ Range(tr) \cap Range(va) = {}
            /\ Range(tr) \cap Range(te) = {}
            /\ Range(va) \cap Range(te) = {}
            /\ Range(tr) \cup Range(va) \cup Range(te) = Range(churn.index)
            /\ Len(tr) + Len(va) + Len(te) = Len(churn.index)
            /\ Cardinality(Range(tr)) = Len(tr)
            /\ Cardinality(Range(va)) = Len(va)
            /\ Cardinality(Range(te)) = Len(te)

SplitIsPartitionWitness ==
    /\ pc = "upload"
    /\ Len(train_data.index) > 1
    /\ Len(validation_data.index) > 0
    /\ Len(test_data.index) > 0
    /\ \E i \in DOMAIN shuffled : shuffled[i] # i

\* C2: an output location is read only after the wait on the job that
\* produces it has returned: the two transform output paths, the channels built
\* from them, the preprocessor's model data and the registered model's artifacts.
ReadsAfterWait ==
    /\ \A j \in reads : j \in waited /\ job[j].status = "Succeeded"
    /\ paths.train # None => "transform_train" \in waited
    /\ paths.validation # None => "transform_validation" \in waited
    /\ channels.train # None => "transform_train" \in waited
    /\ channels.validation # None => "transform_validation" \in waited
    /\ sk_models.pre.model_data # None => "fit" \in waited
    /\ response.status = "created" => {"fit", "training"} \subseteq waited

ReadsAfterWaitWitness ==
    /\ pc = "done"
    /\ reads = JobKinds
    /\ paths.train = job["transform_train"].output
    /\ paths.validation = job["transform_validation"].output

\* C3: once a job has failed, the run reads no output of it, submits no later
\* job and registers no pipeline model.
FailureIsFatal ==
    \A j \in JobKinds :
        job[j].status = "Failed" =>
            /\ j \notin reads
            /\ j \notin waited
            /\ \A k \in JobKinds : Position(k) > Position(j) => job[k].submits = 0
            /\ response.status = "none"
            /\ \A name \in DOMAIN models : models[name].run # run
            /\ IF j = "transform_train" THEN paths.train = None
               ELSE IF j = "transform_validation" THEN paths.validation = None
               ELSE IF j = "fit" THEN sk_models.pre.model_data = None
               ELSE TRUE

FailureIsFatalWitness ==
    /\ pc = "halted"
    /\ job["transform_train"].status = "Failed"
    /\ job["fit"].status = "Succeeded"

\* C4: every registered pipeline model lists exactly three containers: the
\* feature-transform preprocessor, the XGBoost model its run trained, and the
\* inverse-label-transform postprocessor, in that order.
ThreeContainersInOrder ==
    \A name \in DOMAIN models :
        LET c == models[name].Containers
            r == models[name].run
        IN  /\ Len(c) = 3
            /\ c[1].Image = SklearnImage
            /\ c[1].ModelDataUrl = OutputOf("fit", r)
            /\ c[1].Environment.TRANSFORM_MODE = "feature-transform"
            /\ c[2].Image = XgboostImage
            /\ c[2].ModelDataUrl = OutputOf("training", r)
            /\ DOMAIN c[2].Environment = {}
            /\ c[3].Image = SklearnImage
            /\ c[3].ModelDataUrl = OutputOf("fit", r)
            /\ "TRANSFORM_MODE" \in DOMAIN c[3].Environment
            /\ c[3].Environment.TRANSFORM_MODE = "inverse-label-transform"

ThreeContainersInOrderWitness ==
    /\ pc = "done"
    /\ response.status = "created"
    /\ response.ModelName \in DOMAIN models

\* C5: at most one job is submitted or running at any moment.
AtMostOneJobInFlight ==
    Cardinality({j \in JobKinds : job[j].status \in NonTerminal}) <= 1

AtMostOneJobInFlightWitness ==
    /\ job["transform_train"].status = "Succeeded"
    /\ job["transform_validation"].status = "Running"
    /\ job["training"].status = "NotSubmitted"

HasLabel(file) ==
    /\ file.header = << >>
    /\ \A i \in DOMAIN file.rows :
          /\ file.rows[i] # << >>
          /\ file.rows[i][Len(file.rows[i])][2] = Label

LacksLabel(file) ==
    /\ Label \notin Range(file.header)
    /\ file.header # << >>
    /\ \A i \in DOMAIN file.rows : \A k \in DOMAIN file.rows[i] : file.rows[i][k][2] # Label

\* C6: test.csv, locally and in the bucket, has a header and no 'Churn?' column;
\* train.csv and validation.csv have no header and 'Churn?' as the last field of
\* every row.
LabelOnlyInTrainAndValidation ==
    /\ "test.csv" \in DOMAIN files => LacksLabel(files["test.csv"])
    /\ "train.csv" \in DOMAIN files => HasLabel(files["train.csv"])
    /\ "validation.csv" \in DOMAIN files => HasLabel(files["validation.csv"])
    /\ ObjectUri("rawtest/test.csv") \in DOMAIN s3 =>
          LacksLabel(s3[ObjectUri("rawtest/test.csv")])
    /\ ObjectUri("rawtrain/train.csv") \in DOMAIN s3 =>
          HasLabel(s3[ObjectUri("rawtrain/train.csv")])
    /\ ObjectUri("rawvalidation/validation.csv") \in DOMAIN s3 =>
          HasLabel(s3[ObjectUri("rawvalidation/validation.csv")])

LabelOnlyInTrainAndValidationWitness ==
    /\ pc = "fit"
    /\ ObjectUri("rawtest/test.csv") \in DOMAIN s3
    /\ Len(files["test.csv"].rows) > 0
    /\ Len(files["train.csv"].rows) > 0
    /\ Len(files["validation.csv"].rows) > 0

\* the record count of the example dataset
ExampleRecords == 3333

\* C7, as claimed: 3,333 records split into 2,333 train, 667 validation and
\* the remainder as test.
ExampleSplitSizesClaimed ==
    (sizes.done /\ sizes.n = ExampleRecords) =>
        /\ sizes.train = 2333
        /\ sizes.validation = 667
        /\ sizes.test = sizes.n - sizes.train - sizes.validation

\* C7, amended: 3,333 records split at int(0.7 * 3333) = 2333 and
\* int(0.9 * 3333) = 2999 into 2,333 train, 666 validation and 334 test records.
ExampleSplitSizes ==
    (sizes.done /\ sizes.n = ExampleRecords) =>
        /\ sizes.a = 2333
        /\ sizes.b = 2999
        /\ sizes.train = 2333
        /\ sizes.validation = 666
        /\ sizes.test = 334

ExampleSplitSizesWitness ==
    /\ pc = "sized"
    /\ sizes.done
    /\ sizes.n = ExampleRecords
    /\ sizes.train + sizes.validation + sizes.test = ExampleRecords

Statuses == {"NotSubmitted", "Submitted", "Running", "Succeeded", "Failed"}

Edges == {<<"NotSubmitted", "Submitted">>, <<"Submitted", "Running">>,
          <<"Running", "Succeeded">>, <<"Running", "Failed">>}

\* C9: within a run every job moves only along Submitted -> Running ->
\* {Succeeded, Failed}, a job that has succeeded or failed never changes again,
\* there is no other status, and no job is submitted more than once.
JobLifeCycle ==
    [][\A j \in JobKinds :
          /\ job'[j].status \in Statuses
          /\ job'[j].submits <= 1
          /\ run' = run =>
                /\ job'[j].status # job[j].status =>
                      <<job[j].status, job'[j].status>> \in Edges
                /\ job[j].status \in Terminal => job'[j] = job[j]
                /\ job'[j].submits # job[j].submits =>
                      /\ job[j].status = "NotSubmitted"
                      /\ job'[j].status = "Submitted"
                      /\ job'[j].submits = job[j].submits + 1]_vars

JobLifeCycleWitness ==
    /\ pc = "halted"
    /\ job["training"].status = "Failed"
    /\ \A j \in JobKinds \ {"training"} : job[j].status = "Succeeded"
    /\ \A j \in JobKinds : job[j].submits = 1

Abs(x) == IF x < 0 THEN -x ELSE x

\* C10: for every record count each partition's size is within one record of
\* its exact share: 0.7 n for train, 0.2 n for validation, 0.1 n for test.
SizesWithinOneOfShare ==
    sizes.done =>
        /\ Abs(10 * sizes.train - 7 * sizes.n) <= 10
        /\ Abs(10 * sizes.validation - 2 * sizes.n) <= 10
        /\ Abs(10 * sizes.test - sizes.n) <= 10
        /\ sizes.train + sizes.validation + sizes.test = sizes.n

\* 0.7 * 90 is 62.99999999999999 in binary64: train is 62 of 63, validation 19 of 18
SizesWithinOneOfShareWitness ==
    /\ sizes.done
    /\ 10 * sizes.validation - 2 * sizes.n = 10
    /\ 7 * sizes.n - 10 * sizes.train = 10

InputsOf(j) == {job[j].input[f] : f \in DOMAIN job[j].input}

\* C12: the training job's 'train' channel is the output location of the
\* train-set transform, whose input was the rawtrain prefix, and its 'validation'
\* channel is the output location of the validation-set transform, whose input was
\* the rawvalidation prefix; the two differ, and neither the rawtest prefix nor
\* test.csv is an input of any job.
ChannelsMatchTransforms ==
    /\ job["training"].submits > 0 =>
          /\ DOMAIN job["training"].input = {"train", "validation"}
          /\ job["training"].input.train = job["transform_train"].output
          /\ job["training"].input.validation = job["transform_validation"].output
          /\ job["training"].input.train # job["training"].input.validation
          /\ job["transform_train"].status = "Succeeded"
          /\ job["transform_validation"].status = "Succeeded"
    /\ job["transform_train"].submits > 0 =>
          InputsOf("transform_train") = {s3_input_train}
    /\ job["transform_validation"].submits > 0 =>
          InputsOf("transform_validation") = {s3_input_validation}
    /\ job["fit"].submits > 0 => InputsOf("fit") = {s3_input_train}
    /\ \A j \in JobKinds :
          InputsOf(j) \cap {s3_input_test, ObjectUri("rawtest/test.csv")} = {}

ChannelsMatchTransformsWitness ==
    /\ job["training"].status = "Running"
    /\ job["training"].input.train = transform_train_output_path \o JobName("transform_train", run)
    /\ ObjectUri("rawtest/test.csv") \in DOMAIN s3

Stopped == pc \in {"done", "halted"}

RegisteredByRun == {name \in DOMAIN models : models[name].run = run}

\* C13, termination: when every submitted job reaches a terminal state, every
\* run stops.
RunStops == \A r \in 1..MaxRuns : (run = r) ~> (run = r /\ Stopped)

====
